---- MODULE Spec2Model ----
(***************************************************************************)
(* Model of the two utilities of the repository:                           *)
(*   - i18n_lang, the text catalog (language -> text id -> text) with its  *)
(*     fallback to the default language and to the error text;             *)
(*   - get_sys_lang, the locale resolver, on its POSIX branch (environment *)
(*     variables) and on its Apple branch (CFLocale identifier).           *)
(* Strings that the code inspects character by character are sequences of  *)
(* one-character strings; texts and language keys of the catalog are only  *)
(* compared and are plain strings.                                         *)
(***************************************************************************)
EXTENDS Integers, Sequences, FiniteSets, TLC

VARIABLES
    default_lang_,   \* i18n_lang::default_lang_
    texts_,          \* i18n_lang::texts_ : function lang -> (function id -> text)
    ctor_lang,       \* the default_lang argument the constructor was given
    call,            \* the last call made on the catalog, with its result
    preceding,       \* the set_text call, if any, right before the last get_text
    environ,         \* the process environment: function name -> value
    posix,           \* the call of get_sys_lang on the POSIX branch
    cf,              \* what CoreFoundation answers on the Apple branch
    apple            \* the call of get_sys_lang on the Apple branch

catalog_vars == <<default_lang_, texts_, ctor_lang, call, preceding>>

resolver_vars == <<environ, posix, cf, apple>>

vars == <<catalog_vars, resolver_vars>>

-----------------------------------------------------------------------------
(* Bounds of the catalog model *)

MaxId == 2

Langs == {"en-US", "fr-FR"}

TextIds == 1..MaxId

\* template argument DefaultErrorText
DefaultErrorText == "TEXT_NOT_FOUND"

\* texts a caller stores; a caller may store the error text itself
Texts == {"Bonjour", DefaultErrorText}

\* the values of the type text_map over the bounded ids and texts
TextMaps == UNION {[ids -> Texts] : ids \in SUBSET TextIds}

\* the values of the type lang_text_map
LangTextMaps == UNION {[ls -> TextMaps] : ls \in SUBSET Langs}

NoCall == [op |-> "none"]

-----------------------------------------------------------------------------
(* i18n_lang *)

\* std::unordered_map::operator[] on texts_: the bucket of lang, created
\* empty when lang has none
Bucket(lang) == IF lang \in DOMAIN texts_ THEN texts_[lang] ELSE <<>>

\* (variant) one inner mapping shared by every language of the catalog
WithBucketShared(lang, b) == [l \in DOMAIN texts_ \cup {lang} |-> b]

\* texts_ with the bucket of lang replaced by b
WithBucket(lang, b) ==
    [l \in DOMAIN texts_ \cup {lang} |-> IF l = lang THEN b ELSE texts_[l]]

\* (variant) try_emplace instead of operator[] and assignment
AssignTextIfAbsent(bucket, text_id, text) ==
    [i \in DOMAIN bucket \cup {text_id} |->
        IF i \in DOMAIN bucket THEN bucket[i] ELSE text]

\* texts_[lang][text_id] = text
AssignText(bucket, text_id, text) ==
    [i \in DOMAIN bucket \cup {text_id} |->
        IF i = text_id THEN text ELSE bucket[i]]

\* (variant) insert_or_assign for each element of the range
InsertOrAssignRange(bucket, texts) ==
    [i \in DOMAIN bucket \cup DOMAIN texts |->
        IF i \in DOMAIN texts THEN texts[i] ELSE bucket[i]]

\* bucket.insert(texts.begin(), texts.end()): a key already in the bucket
\* keeps its text
InsertRange(bucket, texts) ==
    [i \in DOMAIN bucket \cup DOMAIN texts |->
        IF i \in DOMAIN bucket THEN bucket[i] ELSE texts[i]]

\* get_default_error_text(): a reference to the static error_text
get_default_error_text == [ref |-> <<"error_text">>, val |-> DefaultErrorText]

\* (variant) the default language looked up before the requested one
get_text_default_first(lang, text_id) ==
    IF default_lang_ \in DOMAIN texts_
       /\ text_id \in DOMAIN texts_[default_lang_]
    THEN [ref |-> <<"texts_", default_lang_, text_id>>,
          val |-> texts_[default_lang_][text_id]]
    ELSE IF lang \in DOMAIN texts_ /\ text_id \in DOMAIN texts_[lang]
         THEN [ref |-> <<"texts_", lang, text_id>>,
               val |-> texts_[lang][text_id]]
         ELSE get_default_error_text

\* get_text(lang, text_id): the reference returned and the text it refers to
get_text(lang, text_id) ==
    IF lang \in DOMAIN texts_ /\ text_id \in DOMAIN texts_[lang]
    THEN [ref |-> <<"texts_", lang, text_id>>, val |-> texts_[lang][text_id]]
    ELSE IF default_lang_ \in DOMAIN texts_
            /\ text_id \in DOMAIN texts_[default_lang_]
         THEN [ref |-> <<"texts_", default_lang_, text_id>>,
               val |-> texts_[default_lang_][text_id]]
         ELSE get_default_error_text

\* either constructor: i18n_lang(default_lang) or i18n_lang(default_lang, texts)
CatalogInit ==
    /\ default_lang_ \in Langs
    /\ ctor_lang = default_lang_
    /\ texts_ \in LangTextMaps
    /\ call = NoCall
    /\ preceding = NoCall

\* (variant) set_text that also makes lang the default language
set_text_moving_default(lang, text_id, text) ==
    /\ texts_' = WithBucket(lang, AssignText(Bucket(lang), text_id, text))
    /\ call' = [op |-> "set_text", lang |-> lang, id |-> text_id, text |-> text]
    /\ preceding' = NoCall
    /\ default_lang_' = lang
    /\ UNCHANGED <<ctor_lang, resolver_vars>>

set_text(lang, text_id, text) ==
    /\ texts_' = WithBucket(lang, AssignText(Bucket(lang), text_id, text))
    /\ call' = [op |-> "set_text", lang |-> lang, id |-> text_id, text |-> text]
    /\ preceding' = NoCall
    /\ UNCHANGED <<default_lang_, ctor_lang, resolver_vars>>

set_texts(lang, texts) ==
    /\ texts_' = WithBucket(lang, InsertRange(Bucket(lang), texts))
    /\ call' = [op |-> "set_texts", lang |-> lang, texts |-> texts]
    /\ preceding' = NoCall
    /\ UNCHANGED <<default_lang_, ctor_lang, resolver_vars>>

GetText(lang, text_id) ==
    /\ call' = [op |-> "get_text", lang |-> lang, id |-> text_id,
                ret |-> get_text(lang, text_id)]
    /\ preceding' = IF call.op = "set_text" THEN call ELSE NoCall
    /\ UNCHANGED <<default_lang_, texts_, ctor_lang, resolver_vars>>

CatalogNext ==
    \/ \E lang \in Langs, text_id \in TextIds, text \in Texts :
          set_text(lang, text_id, text)
    \/ \E lang \in Langs, texts \in TextMaps : set_texts(lang, texts)
    \/ \E lang \in Langs, text_id \in TextIds : GetText(lang, text_id)

-----------------------------------------------------------------------------
(* std::string and <cctype>, as get_sys_lang uses them *)

\* std::string::npos
npos == -1

LowerCase == <<"a", "b", "c", "d", "e", "f", "g", "h", "i", "j", "k", "l", "m",
               "n", "o", "p", "q", "r", "s", "t", "u", "v", "w", "x", "y", "z">>

UpperCase == <<"A", "B", "C", "D", "E", "F", "G", "H", "I", "J", "K", "L", "M",
               "N", "O", "P", "Q", "R", "S", "T", "U", "V", "W", "X", "Y", "Z">>

\* ::tolower in the "C" locale
tolower(c) ==
    IF \E k \in 1..26 : UpperCase[k] = c
    THEN LowerCase[CHOOSE k \in 1..26 : UpperCase[k] = c]
    ELSE c

\* ::toupper in the "C" locale
toupper(c) ==
    IF \E k \in 1..26 : LowerCase[k] = c
    THEN UpperCase[CHOOSE k \in 1..26 : LowerCase[k] = c]
    ELSE c

\* std::replace(s.begin(), s.end(), from, to)
replace(s, from, to) ==
    [k \in 1..Len(s) |-> IF s[k] = from THEN to ELSE s[k]]

\* s.find(c, pos): the 0-based position of the first c at or after pos
find(s, c, pos) ==
    LET hits == {k \in pos..(Len(s) - 1) : s[k + 1] = c}
    IN  IF hits = {} THEN npos
        ELSE CHOOSE k \in hits : \A m \in hits : k <= m

\* s.substr(0, n), and s.erase(n)
substr(s, n) == SubSeq(s, 1, n)

\* std::transform(s.begin() + first, s.begin() + last, s.begin() + first, f)
\* for f = ::tolower
transform_tolower(s, first, last) ==
    [k \in 1..Len(s) |->
        IF first < k /\ k <= last THEN tolower(s[k]) ELSE s[k]]

\* the same for f = ::toupper
transform_toupper(s, first, last) ==
    [k \in 1..Len(s) |->
        IF first < k /\ k <= last THEN toupper(s[k]) ELSE s[k]]

\* const std::string DEFAULT_LANGUAGE = "en-US"
DEFAULT_LANGUAGE == <<"e", "n", "-", "U", "S">>

-----------------------------------------------------------------------------
(* get_sys_lang, POSIX branch *)

MaxEnvLen == 3

EnvNames == <<"LC_ALL", "LC_MESSAGES", "LANG">>

EnvAlphabet == {"a", "B", "_", ".", "@"}

\* the strings of length 0..n over the alphabet
StringsUpTo(alphabet, n) == UNION {[1..k -> alphabet] : k \in 0..n}

Str_C == <<"C">>
Str_POSIX == <<"P", "O", "S", "I", "X">>
Str_de_DE == <<"d", "e", "_", "D", "E">>

\* values of locale variables met in practice
KnownLocales ==
    { Str_C, Str_POSIX, Str_de_DE,
      <<"z", "h", "_", "C", "N", ".", "U", "T", "F", "-", "8">>,
      <<"f", "r", "_", "F", "R", "@", "e", "u", "r", "o">>,
      <<"e", "n", "-", "U", "S">>,
      <<"E", "N", "_", "u", "s">>,
      <<"e", "n">>,
      <<"z", "h", "_", "H", "a", "n", "s", "_", "C", "N">>,
      <<"c">>,
      <<"P", "O", "S", "I", "X", ".", "a">> }

EnvStrings == StringsUpTo(EnvAlphabet, MaxEnvLen) \cup KnownLocales

\* the values the other two variables take beside the one under study
EnvCommon == {<<>>, Str_C, Str_de_DE}

\* std::getenv(name): a null pointer, or the value
getenv(name) ==
    IF name \in DOMAIN environ
    THEN [null |-> FALSE, str |-> environ[name]]
    ELSE [null |-> TRUE, str |-> <<>>]

\* !lang || lang[0] == '\0'
NullOrEmpty(lang) == lang.null \/ lang.str = <<>>

\* (variant) the variables read in the order LANG, LC_MESSAGES, LC_ALL
ResolveLangReversed ==
    LET l1 == getenv("LANG")
        l2 == IF NullOrEmpty(l1) THEN getenv("LC_MESSAGES") ELSE l1
        l3 == IF NullOrEmpty(l2) THEN getenv("LC_ALL") ELSE l2
    IN  [lang |-> l3,
         read |-> <<"LANG">>
                  \o (IF NullOrEmpty(l1) THEN <<"LC_MESSAGES">> ELSE <<>>)
                  \o (IF NullOrEmpty(l2) THEN <<"LC_ALL">> ELSE <<>>)]

\* the pointer lang after the three getenv steps, and the names passed to
\* getenv, in order
ResolveLang ==
    LET l1 == getenv("LC_ALL")
        l2 == IF NullOrEmpty(l1) THEN getenv("LC_MESSAGES") ELSE l1
        l3 == IF NullOrEmpty(l2) THEN getenv("LANG") ELSE l2
    IN  [lang |-> l3,
         read |-> <<"LC_ALL">>
                  \o (IF NullOrEmpty(l1) THEN <<"LC_MESSAGES">> ELSE <<>>)
                  \o (IF NullOrEmpty(l2) THEN <<"LANG">> ELSE <<>>)]

\* (variant) only "C" is taken for a placeholder
IsPlaceholderOnlyC(result) == result = Str_C

\* result == "C" || result == "POSIX"
IsPlaceholder(result) == result = Str_C \/ result = Str_POSIX

\* the conversion of a resolved value that is no placeholder
NormalizePosix(result) ==
    LET r1 == replace(result, "_", "-")
        dash_pos == find(r1, "-", 0)
        r2 == IF dash_pos # npos /\ dash_pos + 1 < Len(r1)
              THEN transform_toupper(transform_tolower(r1, 0, dash_pos),
                                     dash_pos + 1, Len(r1))
              ELSE r1
        dotPos == find(r2, ".", 0)
        r3 == IF dotPos # npos THEN substr(r2, dotPos) ELSE r2
        atPos == find(r3, "@", 0)
    IN  IF atPos # npos THEN substr(r3, atPos) ELSE r3

NotCalled == [pc |-> "start"]

\* no CFLocale queried
NoLocale == [locale_null |-> TRUE, localeID |-> <<>>, cstring_ok |-> FALSE]

PosixIdle == environ = <<>> /\ posix = NotCalled

AppleIdle == cf = NoLocale /\ apple = NotCalled

ResolverIdle == PosixIdle /\ AppleIdle

\* the environment the process starts with: one variable under study, the
\* others unset or with a common value
PosixInit ==
    /\ \E v \in EnvStrings :
          environ \in UNION {[ns -> EnvCommon \cup {v}] :
                             ns \in SUBSET {"LC_ALL", "LC_MESSAGES", "LANG"}}
    /\ posix = NotCalled

\* std::string get_sys_lang() noexcept, #elif defined(__linux__) ...
get_sys_lang_posix ==
    /\ posix.pc = "start"
    /\ LET r == ResolveLang
       IN  posix' =
             [pc |-> "done", lang |-> r.lang, read |-> r.read,
              ret |-> IF NullOrEmpty(r.lang) THEN DEFAULT_LANGUAGE
                      ELSE IF IsPlaceholder(r.lang.str) THEN DEFAULT_LANGUAGE
                      ELSE NormalizePosix(r.lang.str)]
    /\ UNCHANGED <<catalog_vars, environ, cf, apple>>

CatalogIdle ==
    /\ default_lang_ = "en-US"
    /\ ctor_lang = "en-US"
    /\ texts_ = <<>>
    /\ call = NoCall
    /\ preceding = NoCall

\* a catalog is constructed; get_sys_lang is not called
Init == CatalogInit /\ ResolverIdle

Spec == Init /\ [][CatalogNext]_vars

\* a process starts with its environment; the catalog is not used
PosixStart == PosixInit /\ AppleIdle /\ CatalogIdle

PosixSpec == PosixStart /\ [][get_sys_lang_posix]_vars

-----------------------------------------------------------------------------
(* get_sys_lang, Apple branch *)

MaxLocaleLen == 5

LocaleAlphabet == {"a", "B", "_", "-"}

LocaleIDs ==
    StringsUpTo(LocaleAlphabet, MaxLocaleLen)
    \cup { <<"z", "h", "_", "H", "a", "n", "s", "_", "C", "N">>,
           <<"e", "n", "_", "U", "S">>,
           <<"s", "r", "_", "L", "a", "t", "n", "_", "R", "S", "_", "x">> }

\* (variant) the conversion the comment of line 63 describes: the middle
\* segment is the one removed
NormalizeAppleDropMiddle(localeID) ==
    LET r1 == replace(localeID, "_", "-")
        first_dash == find(r1, "-", 0)
        second_dash == IF first_dash # npos
                       THEN find(r1, "-", first_dash + 1) ELSE npos
    IN  IF second_dash # npos
        THEN substr(r1, first_dash) \o SubSeq(r1, second_dash + 1, Len(r1))
        ELSE r1

\* the body of if (CFStringGetCString(...)): replace, find, find, erase
NormalizeApple(localeID) ==
    LET r1 == replace(localeID, "_", "-")
        first_dash == find(r1, "-", 0)
        second_dash == IF first_dash # npos
                       THEN find(r1, "-", first_dash + 1) ELSE npos
    IN  IF second_dash # npos THEN substr(r1, second_dash) ELSE r1

\* CFLocaleCopyCurrent() answers a locale or null; CFStringGetCString
\* succeeds or fails
AppleInit ==
    /\ cf \in [locale_null : BOOLEAN, localeID : LocaleIDs,
               cstring_ok : BOOLEAN]
    /\ cf.locale_null => cf = NoLocale
    /\ apple = NotCalled

\* std::string get_sys_lang() noexcept, #elif defined(__APPLE__)
get_sys_lang_apple ==
    /\ apple.pc = "start"
    /\ apple' = [pc |-> "done",
                 ret |-> IF cf.locale_null THEN DEFAULT_LANGUAGE
                         ELSE IF cf.cstring_ok THEN NormalizeApple(cf.localeID)
                         ELSE DEFAULT_LANGUAGE]
    /\ UNCHANGED <<catalog_vars, environ, posix, cf>>

\* a process starts with its locale; the catalog is not used
AppleStart == AppleInit /\ PosixIdle /\ CatalogIdle

AppleSpec == AppleStart /\ [][get_sys_lang_apple]_vars

-----------------------------------------------------------------------------
(* Properties of the catalog *)

\* (lang, id) has a text in the catalog t
Has(t, lang, id) == lang \in DOMAIN t /\ id \in DOMAIN t[lang]

\* C1: get_text(lang, id) returns the text stored under (lang, id) when lang
\* has id, else the text stored under (default language, id) when the default
\* language has id, else the error text of get_default_error_text(); the
\* error text is returned only when both languages lack id.
GetTextFallback ==
    call.op = "get_text" =>
        LET l == call.lang
            i == call.id
            r == call.ret
        IN  /\ Has(texts_, l, i) =>
                r.ref = <<"texts_", l, i>> /\ r.val = texts_[l][i]
            /\ ~Has(texts_, l, i) /\ Has(texts_, default_lang_, i) =>
                /\ r.ref = <<"texts_", default_lang_, i>>
                /\ r.val = texts_[default_lang_][i]
            /\ ~Has(texts_, l, i) /\ ~Has(texts_, default_lang_, i) =>
                r = get_default_error_text /\ r.val = DefaultErrorText
            /\ r.ref = <<"error_text">> =>
                ~Has(texts_, l, i) /\ ~Has(texts_, default_lang_, i)

\* get_text asked for an id that the requested language and the default
\* language both hold, with different texts, and returned the requested one
GetTextPrefersRequested ==
    /\ call.op = "get_text"
    /\ call.lang # default_lang_
    /\ Has(texts_, call.lang, call.id)
    /\ Has(texts_, default_lang_, call.id)
    /\ texts_[call.lang][call.id] # texts_[default_lang_][call.id]
    /\ call.ret.val = texts_[call.lang][call.id]

\* C2: get_text(lang, id) right after set_text(lang, id, text) returns text.
WriteThenRead ==
    ( /\ call.op = "get_text"
      /\ preceding.op = "set_text"
      /\ preceding.lang = call.lang
      /\ preceding.id = call.id )
    => call.ret.val = preceding.text

\* a set_text on a non-default language, of a text that differs from the
\* default language's text for the id, was read back
WriteThenReadNonDefault ==
    /\ call.op = "get_text"
    /\ preceding.op = "set_text"
    /\ preceding.lang = call.lang
    /\ preceding.id = call.id
    /\ call.lang # default_lang_
    /\ Has(texts_, default_lang_, call.id)
    /\ texts_[default_lang_][call.id] # preceding.text
    /\ call.ret.val = preceding.text

\* C3: set_texts(lang, entries) keeps the text of every id lang already had,
\* and stores the text of entries for every id of entries lang did not have.
SetTextsNeverOverwrites ==
    [][ call'.op = "set_texts" =>
          LET l == call'.lang
              e == call'.texts
              old == IF l \in DOMAIN texts_ THEN texts_[l] ELSE <<>>
          IN  /\ l \in DOMAIN texts_'
              /\ \A i \in DOMAIN old :
                    i \in DOMAIN texts_'[l] /\ texts_'[l][i] = old[i]
              /\ \A i \in DOMAIN e \ DOMAIN old :
                    i \in DOMAIN texts_'[l] /\ texts_'[l][i] = e[i]
      ]_vars

\* after a set_texts, an id of the entries holds a text other than the one
\* the entries gave it, and another id holds the text of the entries
SetTextsSkippedAnId ==
    /\ call.op = "set_texts"
    /\ \E i, j \in DOMAIN call.texts :
          /\ i # j
          /\ texts_[call.lang][i] # call.texts[i]
          /\ texts_[call.lang][j] = call.texts[j]

\* C9: the default language is the constructor's argument after any sequence
\* of calls, and it is the language get_text falls back to.
DefaultLangFixed ==
    /\ default_lang_ = ctor_lang
    /\ ( /\ call.op = "get_text"
         /\ ~Has(texts_, call.lang, call.id)
         /\ Has(texts_, ctor_lang, call.id) )
       => call.ret.ref = <<"texts_", ctor_lang, call.id>>

\* a get_text for another language fell back to the constructor's language
\* right after a set_text on that other language
FellBackAfterSetText ==
    /\ call.op = "get_text"
    /\ preceding.op = "set_text"
    /\ preceding.lang = call.lang
    /\ call.lang # ctor_lang
    /\ call.ret.ref = <<"texts_", ctor_lang, call.id>>

\* the language l has the same bucket, or the same absence of one, in t and u
SameBucket(t, u, l) ==
    /\ l \in DOMAIN t <=> l \in DOMAIN u
    /\ l \in DOMAIN t => t[l] = u[l]

\* C10: set_text and set_texts on a language leave every other language's
\* mapping unchanged, set_text leaves every other id of its language
\* unchanged, get_text changes nothing, and no (lang, id) is ever removed.
BucketsIndependent ==
    [][ /\ call'.op \in {"set_text", "set_texts"} =>
              \A l \in Langs \ {call'.lang} : SameBucket(texts_, texts_', l)
        /\ call'.op = "set_text" =>
              LET l == call'.lang
                  old == IF l \in DOMAIN texts_ THEN texts_[l] ELSE <<>>
              IN  /\ l \in DOMAIN texts_'
                  /\ DOMAIN texts_'[l] = DOMAIN old \cup {call'.id}
                  /\ \A i \in DOMAIN old \ {call'.id} : texts_'[l][i] = old[i]
        /\ call'.op = "get_text" => texts_' = texts_
        /\ \A l \in Langs, i \in TextIds :
              Has(texts_, l, i) => Has(texts_', l, i)
      ]_vars

\* after a set_text, another language holds a text that differs from the one
\* just set, and the language of the call holds another id
SetTextBesideOthers ==
    /\ call.op = "set_text"
    /\ \E l \in DOMAIN texts_ \ {call.lang} :
          \E i \in DOMAIN texts_[l] : texts_[l][i] # call.text
    /\ \E i \in DOMAIN texts_[call.lang] : i # call.id

-----------------------------------------------------------------------------
(* Properties of get_sys_lang, POSIX branch *)

\* the positions in EnvNames of the variables that are set and non-empty
SetNonEmpty ==
    {k \in 1..3 : EnvNames[k] \in DOMAIN environ /\ environ[EnvNames[k]] # <<>>}

\* the position of the first of them in priority order
FirstSetNonEmpty == CHOOSE k \in SetNonEmpty : \A m \in SetNonEmpty : k <= m

\* C4: the value get_sys_lang uses is that of the first of LC_ALL,
\* LC_MESSAGES, LANG that is set and non-empty, the variables before it being
\* read and skipped and none after it being read; with none set and
\* non-empty the three are read and the result is "en-US".
EnvPriority ==
    posix.pc = "done" =>
        IF SetNonEmpty = {}
        THEN posix.ret = DEFAULT_LANGUAGE /\ posix.read = EnvNames
        ELSE /\ ~posix.lang.null
             /\ posix.lang.str = environ[EnvNames[FirstSetNonEmpty]]
             /\ posix.read = SubSeq(EnvNames, 1, FirstSetNonEmpty)

\* LC_ALL set to the empty string was skipped and LC_MESSAGES was used,
\* although LANG holds another value
UsedLcMessages ==
    /\ posix.pc = "done"
    /\ DOMAIN environ = {"LC_ALL", "LC_MESSAGES", "LANG"}
    /\ environ["LC_ALL"] = <<>>
    /\ environ["LC_MESSAGES"] =
          <<"z", "h", "_", "C", "N", ".", "U", "T", "F", "-", "8">>
    /\ environ["LANG"] = Str_de_DE
    /\ posix.lang.str = environ["LC_MESSAGES"]
    /\ posix.ret = <<"z", "h", "-", "C", "N">>

\* the 1-based position of the first c in s, 0 when s has none
FirstIndex(s, c) ==
    IF \E k \in 1..Len(s) : s[k] = c
    THEN CHOOSE k \in 1..Len(s) :
            s[k] = c /\ \A m \in 1..(k - 1) : s[m] # c
    ELSE 0

\* s without the suffix that starts at its first c
BeforeFirst(s, c) ==
    IF FirstIndex(s, c) = 0 THEN s ELSE SubSeq(s, 1, FirstIndex(s, c) - 1)

\* the conversion as stated: underscores to hyphens, lowercase before the
\* first hyphen, uppercase after it, cut at the first '.' and the first '@'
StatedConversion(s) ==
    LET h == [k \in 1..Len(s) |-> IF s[k] = "_" THEN "-" ELSE s[k]]
        d == FirstIndex(h, "-")
        cased == [k \in 1..Len(h) |->
                    IF d # 0 /\ k < d THEN tolower(h[k])
                    ELSE IF d # 0 /\ k > d THEN toupper(h[k])
                    ELSE h[k]]
    IN  BeforeFirst(BeforeFirst(cased, "."), "@")

\* C5: for every resolved value other than "C" and "POSIX", get_sys_lang
\* returns the value with underscores replaced by hyphens, the characters
\* before the first hyphen lowercased, those after it uppercased, and the
\* suffixes starting at the first '.' and the first '@' removed.
PosixConversionAsStated ==
    ( /\ posix.pc = "done"
      /\ ~NullOrEmpty(posix.lang)
      /\ posix.lang.str \notin {Str_C, Str_POSIX} )
    => posix.ret = StatedConversion(posix.lang.str)

\* C6: when the resolved value is exactly "C" or "POSIX", or no variable is
\* set and non-empty, get_sys_lang returns "en-US", and no variable of lower
\* priority than the one holding the placeholder is read.
PlaceholderYieldsDefault ==
    posix.pc = "done" =>
        IF SetNonEmpty = {}
        THEN posix.ret = DEFAULT_LANGUAGE
        ELSE environ[EnvNames[FirstSetNonEmpty]] \in {Str_C, Str_POSIX} =>
                /\ posix.ret = DEFAULT_LANGUAGE
                /\ posix.read = SubSeq(EnvNames, 1, FirstSetNonEmpty)

\* LC_ALL is "POSIX" and LANG is "de_DE": the result is "en-US" and LANG was
\* not read
PlaceholderHidesLang ==
    /\ posix.pc = "done"
    /\ "LC_ALL" \in DOMAIN environ /\ environ["LC_ALL"] = Str_POSIX
    /\ "LANG" \in DOMAIN environ /\ environ["LANG"] = Str_de_DE
    /\ posix.ret = DEFAULT_LANGUAGE
    /\ posix.read = <<"LC_ALL">>

\* a lowercase language code, one hyphen, an uppercase country code
IsUnifiedFormat(s) ==
    \E d \in 2..(Len(s) - 1) :
        /\ s[d] = "-"
        /\ \A k \in 1..(d - 1) : \E n \in 1..26 : LowerCase[n] = s[k]
        /\ \A k \in (d + 1)..Len(s) : \E n \in 1..26 : UpperCase[n] = s[k]

\* C8: for every value of the environment variables, the string returned by
\* get_sys_lang is a lowercase language code, a hyphen and an uppercase
\* country code.
ReturnsUnifiedFormat ==
    posix.pc = "done" => IsUnifiedFormat(posix.ret)

-----------------------------------------------------------------------------
(* Properties of get_sys_lang, Apple branch *)

RECURSIVE Segments(_)
\* the hyphen-delimited segments of s
Segments(s) ==
    IF FirstIndex(s, "-") = 0 THEN <<s>>
    ELSE <<SubSeq(s, 1, FirstIndex(s, "-") - 1)>>
         \o Segments(SubSeq(s, FirstIndex(s, "-") + 1, Len(s)))

====
